---- MODULE Spec2Model ----
(***************************************************************************)
(* Model of the loft-signage display: the reservation normalizer of        *)
(* src/utils/loftApi.js, the timeline arithmetic of                        *)
(* src/components/DailyCalendar.jsx and the SignageDisplay component with  *)
(* its two interval timers.                                                *)
(*                                                                         *)
(* The specifications share the variables:                                 *)
(*   Spec     the mounted SignageDisplay: clock ticks, data ticks and the  *)
(*            fetches in flight;                                           *)
(*   SpecLive Spec with the two intervals firing again and again;          *)
(*   SpecRace the same display with its fetches numbered as issued;        *)
(*   SpecDeploy one run of deploy.sh, section by section;                  *)
(*   SpecApi  one call of getLoftReservations, step by step, on a fetch    *)
(*            outcome drawn from a bounded set;                            *)
(*   SpecPos  one call of one function of DailyCalendar.                   *)
(***************************************************************************)
EXTENDS Integers, Sequences, FiniteSets, TLC

VARIABLES
    phase,          \* SignageDisplay: "constructed", "mounted", "unmounted"
    currentDate,    \* useState currentDate
    currentTime,    \* useState currentTime
    reservations,   \* useState reservations
    inflight,       \* the fetchReservations calls awaiting their fetch, oldest first
    lastCycle,      \* history: what the last completed data cycle fetched
    clockFired,     \* history: the clock interval has fired
    pc,             \* SpecApi / SpecPos: position inside the call
    arg,            \* SpecApi / SpecPos: the input of the call
    ret             \* SpecApi / SpecPos: the value computed so far

vars == <<phase, currentDate, currentTime, reservations, inflight, lastCycle,
          clockFired, pc, arg, ret>>

displayVars == <<phase, currentDate, currentTime, reservations, inflight, lastCycle,
                 clockFired>>
callVars == <<pc, arg, ret>>

(***************************************************************************)
(* JavaScript values.  Every value is a record tagged by t.                *)
(***************************************************************************)
Undefined == [t |-> "undefined"]
Null == [t |-> "null"]
Str(s) == [t |-> "string", s |-> s]
Num(n) == [t |-> "number", n |-> n]
\* an ISO-8601 local date-time string "2024-01-(15+day)Thour:minute:00"
Iso(d, h, m) == [t |-> "string", s |-> "iso", day |-> d, hour |-> h, minute |-> m]
Arr(elems) == [t |-> "array", elems |-> elems]

\* ToBoolean: undefined, null and the empty string are the falsy values here
Truthy(v) == ~(v.t \in {"undefined", "null"} \/ v = Str("") \/ v = Num(0))

\* a || b
Or(a, b) == IF Truthy(a) THEN a ELSE b

(***************************************************************************)
(* The timeline window (DailyCalendar.jsx).                                *)
(***************************************************************************)
StartHour == 7
EndHour == 21
MinutesPerHour == 60

Hours == 0 .. 23
Minutes == 0 .. 59

\* A JavaScript number that is a quotient of two integers, kept exact.
Rat(n, d) == [num |-> n, den |-> d]
RatEq(p, q) == p.num * q.den = q.num * p.den
RatLeq(p, q) == p.num * q.den <= q.num * p.den
RatLt(p, q) == p.num * q.den < q.num * p.den

\* faulty variant: the 9pm line at 98% as the comment on the clamp says
getTimePosition98(hour, minute) ==
    IF hour = EndHour THEN Rat(98, 100)
    ELSE Rat((hour - StartHour) * MinutesPerHour + minute,
             (EndHour - StartHour) * MinutesPerHour)

\* faulty variant: the window starts at 8am
getTimePositionFrom8(hour, minute) ==
    IF hour = EndHour THEN Rat(1, 1)
    ELSE Rat((hour - (StartHour + 1)) * MinutesPerHour + minute,
             (EndHour - StartHour) * MinutesPerHour)

\* faulty variant: the position is clamped into [0, 1]
getTimePositionClamped(hour, minute) ==
    LET totalMinutes == (hour - StartHour) * MinutesPerHour + minute
        totalTimeRange == (EndHour - StartHour) * MinutesPerHour
    IN  IF hour = EndHour \/ totalMinutes > totalTimeRange THEN Rat(1, 1)
        ELSE IF totalMinutes < 0 THEN Rat(0, 1)
        ELSE Rat(totalMinutes, totalTimeRange)

getTimePosition(hour, minute) ==
    LET totalMinutes == (hour - StartHour) * MinutesPerHour + minute
        totalTimeRange == (EndHour - StartHour) * MinutesPerHour
        position == Rat(totalMinutes, totalTimeRange)
    IN  IF hour = EndHour THEN Rat(1, 1) ELSE position

\* faulty variant: the indicator is hidden from 9pm on
getCurrentTimePositionBefore9(theTime) ==
    LET currentHour == theTime.hour
        currentMinute == theTime.minute
    IN  IF currentHour < StartHour \/ currentHour >= EndHour THEN Null
        ELSE getTimePosition(currentHour, currentMinute)

\* null when the indicator is not to be shown
getCurrentTimePosition(theTime) ==
    LET currentHour == theTime.hour
        currentMinute == theTime.minute
    IN  IF currentHour < StartHour \/ currentHour > EndHour THEN Null
        ELSE getTimePosition(currentHour, currentMinute)

\* new Date(timeString) of an ISO local date-time; getHours(), getMinutes()
NewDate(timeString) ==
    [day |-> timeString.day, hour |-> timeString.hour, minute |-> timeString.minute]
getHours(date) == date.hour
getMinutes(date) == date.minute

\* the same number in lowest terms, to keep the products small
RECURSIVE Gcd(_, _)
Gcd(a, b) == IF b = 0 THEN a ELSE Gcd(b, a % b)
Abs(a) == IF a < 0 THEN 0 - a ELSE a
Reduce(p) ==
    LET g == Gcd(Abs(p.num), Abs(p.den))
    IN  IF g = 0 THEN p ELSE Rat(p.num \div g, p.den \div g)

RatAdd(p, q) == Reduce(Rat(p.num * q.den + q.num * p.den, p.den * q.den))
RatSub(p, q) == Reduce(Rat(p.num * q.den - q.num * p.den, p.den * q.den))
\* `${x * 100}%`: a CSS percentage of the timeline's height
Percent(x) == Reduce(Rat(x.num * 100, x.den))

\* faulty variant: a later day moves the end down by a whole day
getEventPositionAcrossDays(startTime, endTime) ==
    LET start == NewDate(startTime)
        end == NewDate(endTime)
        startPosition == getTimePosition(getHours(start), getMinutes(start))
        endPosition == getTimePosition(getHours(end) + 24 * (end.day - start.day),
                                       getMinutes(end))
    IN  [top |-> Percent(startPosition),
         height |-> Percent(RatSub(endPosition, startPosition))]

\* faulty variant: the height is the end position, not the difference
getEventPositionHeightIsEnd(startTime, endTime) ==
    LET start == NewDate(startTime)
        end == NewDate(endTime)
        startPosition == getTimePosition(getHours(start), getMinutes(start))
        endPosition == getTimePosition(getHours(end), getMinutes(end))
    IN  [top |-> Percent(startPosition), height |-> Percent(endPosition)]

getEventPosition(startTime, endTime) ==
    LET start == NewDate(startTime)
        end == NewDate(endTime)
        startPosition == getTimePosition(getHours(start), getMinutes(start))
        endPosition == getTimePosition(getHours(end), getMinutes(end))
    IN  [top |-> Percent(startPosition),
         height |-> Percent(RatSub(endPosition, startPosition))]

Slot(hour, minute, isHour) == [hour |-> hour, minute |-> minute, isHour |-> isHour]

\* faulty variant: the 30-minute mark is added for 9pm as well
RECURSIVE timeSlotsWith2130(_)
timeSlotsWith2130(hour) ==
    IF hour > EndHour THEN <<>>
    ELSE <<Slot(hour, 0, TRUE), Slot(hour, 30, FALSE)>> \o timeSlotsWith2130(hour + 1)

\* the loop that fills timeSlots, from the given hour on
RECURSIVE timeSlotsFrom(_)
timeSlotsFrom(hour) ==
    IF hour > EndHour THEN <<>>
    ELSE <<Slot(hour, 0, TRUE)>>
         \o (IF hour < EndHour THEN <<Slot(hour, 30, FALSE)>> ELSE <<>>)
         \o timeSlotsFrom(hour + 1)

timeSlots == timeSlotsFrom(StartHour)

\* the lines drawn for the slots with the given isHour
gridLines(isHour) ==
    LET keep(slot) == slot.isHour = isHour
        slots == SelectSeq(timeSlots, keep)
    IN  [i \in 1 .. Len(slots) |->
            [hour |-> slots[i].hour, minute |-> slots[i].minute,
             top |-> Percent(getTimePosition(slots[i].hour, slots[i].minute))]]

\* faulty variant: a block that starts inside the previous one is stacked on it
RECURSIVE eventBlocksStacked(_)
eventBlocksStacked(theReservations) ==
    LET n == Len(theReservations.elems)
    IN  IF n = 0 THEN <<>>
        ELSE LET r == theReservations.elems[n]
                 own == getEventPosition(r.startTime, r.endTime)
                 before == eventBlocksStacked(Arr(SubSeq(theReservations.elems, 1, n - 1)))
                 prev == before[n - 1]
                 overlaps == /\ n > 1
                             /\ RatLeq(prev.top, own.top)
                             /\ RatLt(own.top, RatAdd(prev.top, prev.height))
             IN  Append(before,
                        [key |-> r.id,
                         top |-> IF overlaps THEN prev.top ELSE own.top,
                         height |-> own.height])

\* reservations.map(...): one block for each reservation
eventBlocks(theReservations) ==
    [i \in 1 .. Len(theReservations.elems) |->
        LET reservation == theReservations.elems[i]
            position == getEventPosition(reservation.startTime, reservation.endTime)
        IN  [key |-> reservation.id, top |-> position.top, height |-> position.height]]

\* what DailyCalendar draws for its props
DailyCalendar(theReservations, theTime) ==
    LET currentTimePosition == getCurrentTimePosition(theTime)
    IN  [hourLines |-> gridLines(TRUE),
         halfHourLines |-> gridLines(FALSE),
         currentTimeIndicator |->
             IF currentTimePosition # Null
             THEN <<[top |-> Percent(currentTimePosition)]>>
             ELSE <<>>,
         events |-> eventBlocks(theReservations)]

(***************************************************************************)
(* Objects of the calendar provider's JSON.                                *)
(***************************************************************************)
Status(v) == [t |-> "object", value |-> v]
Resource(name, status) == [t |-> "object", name |-> name, status |-> status]
Location(name) == [t |-> "object", Name |-> name]
Event(id, name, start, end, setupStart, setupEnd, organizer, description, location, resources) ==
    [t |-> "object", ID |-> id, Name |-> name, StartTime |-> start,
     EndTime |-> end, SetupStart |-> setupStart, SetupEnd |-> setupEnd,
     Organizer |-> organizer, Description |-> description,
     Location |-> location, Recurrence |-> Undefined, Resources |-> resources]

\* o.f for a value o that is neither null nor undefined
Get(o, f) == IF f \in DOMAIN o /\ f # "t" THEN o[f] ELSE Undefined
\* o.f throws a TypeError when o is null or undefined
Nullish(o) == o.t \in {"undefined", "null"}
\* o?.f
OptGet(o, f) == IF Nullish(o) THEN Undefined ELSE Get(o, f)

\* completion of an expression: a value, or a thrown exception
Normal(v) == [threw |-> FALSE, value |-> v]
Thrown == [threw |-> TRUE]

(***************************************************************************)
(* loftApi.js                                                              *)
(***************************************************************************)
\* what the network and the JSON parser do in one fetch
OutcomeKinds == {"networkError", "httpError", "jsonError", "ok"}
Failed(kind) == [kind |-> kind]
Fetched(data) == [kind |-> "ok", data |-> data]

\* faulty variant: the exception of a failed fetch is passed on to the caller
fetchGraceChurchEventsRethrow(outcome) ==
    IF outcome.kind = "ok" THEN Normal(outcome.data) ELSE Thrown

fetchGraceChurchEvents(outcome) ==
    IF outcome.kind = "networkError" THEN Normal(Arr(<<>>))      \* fetch rejects
    ELSE IF outcome.kind = "httpError" THEN Normal(Arr(<<>>))    \* !response.ok
    ELSE IF outcome.kind = "jsonError" THEN Normal(Arr(<<>>))    \* response.json rejects
    ELSE Normal(outcome.data)

\* the callback of resources.some: "true", "false" or "throw"
resourceMatches(resource) ==
    IF Nullish(resource) THEN "throw"
    ELSE IF /\ Get(resource, "name") = Str("The Loft")
            /\ Truthy(Get(resource, "status"))
            /\ Get(Get(resource, "status"), "value") = Str("Approved")
         THEN "true"
         ELSE "false"

\* resources.some(...) from index i on: stops at the first match
RECURSIVE someFrom(_, _)
someFrom(resources, i) ==
    IF i > Len(resources) THEN "false"
    ELSE LET r == resourceMatches(resources[i])
         IN  IF r = "false" THEN someFrom(resources, i + 1) ELSE r

\* faulty variant: the status of the resource is not looked at
filterCallbackAnyStatus(event) ==
    IF Nullish(event) THEN "throw"
    ELSE LET R == Get(event, "Resources")
             named(r) == ~Nullish(r) /\ Get(r, "name") = Str("The Loft")
         IN  IF ~Truthy(R) THEN "false"
             ELSE IF R.t = "array"
                  THEN IF \E i \in 1 .. Len(R.elems) : named(R.elems[i])
                       THEN "true" ELSE "false"
                  ELSE IF named(R) THEN "true" ELSE "false"

\* the callback of events.filter: "true", "false" or "throw"
filterCallback(event) ==
    IF Nullish(event) THEN "throw"
    ELSE LET R == Get(event, "Resources")
         IN  IF ~Truthy(R) THEN "false"
             ELSE IF R.t = "array" THEN someFrom(R.elems, 1)
             ELSE IF R.t = "object" THEN someFrom(<<R>>, 1)
             ELSE "false"

filterLoftEvents(events) ==
    IF events.t # "array" THEN Normal(Arr(<<>>))
    ELSE IF \E i \in 1 .. Len(events.elems) : filterCallback(events.elems[i]) = "throw"
         THEN Thrown
         ELSE LET keep(e) == filterCallback(e) = "true"
              IN  Normal(Arr(SelectSeq(events.elems, keep)))

\* faulty variant: the nominal times win over the setup times
transformEventToReservationNominalFirst(event) ==
    [t |-> "object",
     id |-> Get(event, "ID"),
     title |-> Get(event, "Name"),
     startTime |-> Or(Get(event, "StartTime"), Get(event, "SetupStart")),
     endTime |-> Or(Get(event, "EndTime"), Get(event, "SetupEnd")),
     organizer |-> Get(event, "Organizer"),
     room |-> Str("The Loft"),
     description |-> Get(event, "Description"),
     location |-> Or(OptGet(Get(event, "Location"), "Name"), Str("The Loft")),
     recurrence |-> Get(event, "Recurrence")]

\* faulty variant: the setup window is used only when both of its ends are set
transformEventToReservationSetupPair(event) ==
    LET both == Truthy(Get(event, "SetupStart")) /\ Truthy(Get(event, "SetupEnd"))
    IN  [t |-> "object",
         id |-> Get(event, "ID"),
         title |-> Get(event, "Name"),
         startTime |-> IF both THEN Get(event, "SetupStart") ELSE Get(event, "StartTime"),
         endTime |-> IF both THEN Get(event, "SetupEnd") ELSE Get(event, "EndTime"),
         organizer |-> Get(event, "Organizer"),
         room |-> Str("The Loft"),
         description |-> Get(event, "Description"),
         location |-> Or(OptGet(Get(event, "Location"), "Name"), Str("The Loft")),
         recurrence |-> Get(event, "Recurrence")]

\* faulty variant: the room is taken from the event's location
transformEventToReservationRoomFromLocation(event) ==
    [t |-> "object",
     id |-> Get(event, "ID"),
     title |-> Get(event, "Name"),
     startTime |-> Or(Get(event, "SetupStart"), Get(event, "StartTime")),
     endTime |-> Or(Get(event, "SetupEnd"), Get(event, "EndTime")),
     organizer |-> Get(event, "Organizer"),
     room |-> Or(OptGet(Get(event, "Location"), "Name"), Str("The Loft")),
     description |-> Get(event, "Description"),
     location |-> Or(OptGet(Get(event, "Location"), "Name"), Str("The Loft")),
     recurrence |-> Get(event, "Recurrence")]

transformEventToReservation(event) ==
    [t |-> "object",
     id |-> Get(event, "ID"),
     title |-> Get(event, "Name"),
     startTime |-> Or(Get(event, "SetupStart"), Get(event, "StartTime")),
     endTime |-> Or(Get(event, "SetupEnd"), Get(event, "EndTime")),
     organizer |-> Get(event, "Organizer"),
     room |-> Str("The Loft"),
     description |-> Get(event, "Description"),
     location |-> Or(OptGet(Get(event, "Location"), "Name"), Str("The Loft")),
     recurrence |-> Get(event, "Recurrence")]

\* loftEvents.map(transformEventToReservation)
mapTransform(loftEvents) ==
    Arr([i \in 1 .. Len(loftEvents.elems) |->
            transformEventToReservation(loftEvents.elems[i])])

\* the whole of getLoftReservations on one fetch outcome; never throws
getLoftReservations(outcome) ==
    LET events == fetchGraceChurchEvents(outcome)
    IN  IF events.threw THEN Arr(<<>>)
        ELSE LET loftEvents == filterLoftEvents(events.value)
             IN  IF loftEvents.threw THEN Arr(<<>>)
                 ELSE mapTransform(loftEvents.value)

(***************************************************************************)
(* Bounds and input universes.                                             *)
(***************************************************************************)
MaxEvents == 2      \* SpecApi: longest fetched array
MaxFetched == 2     \* Spec: longest fetched array
MaxInFlight == 2    \* Spec: most fetches awaiting the network at once

\* all sequences over S of length at most n
SeqUpTo(S, n) == UNION {[1 .. k -> S] : k \in 0 .. n}

Approved == Status(Str("Approved"))
Pending == Status(Str("Pending"))
Loft == Resource(Str("The Loft"), Approved)
LoftPending == Resource(Str("The Loft"), Pending)
Chapel == Resource(Str("Chapel"), Approved)

\* the values the Resources field of a raw event is drawn from
ResourceShapes ==
    << Undefined,                                   \*  1 no Resources field
       Null,                                        \*  2
       Str("The Loft"),                             \*  3 neither object nor array
       Str(""),                                     \*  4
       Loft,                                        \*  5 single object, qualifies
       LoftPending,                                 \*  6
       Chapel,                                      \*  7
       Resource(Str("The Loft"), Undefined),        \*  8 no status
       Resource(Str("The Loft"), Str("Approved")),  \*  9 status is not an object
       Resource(Str("the loft"), Approved),         \* 10 name differs in case
       Resource(Str("The Loft"), Status(Str("approved"))),  \* 11
       Arr(<<>>),                                   \* 12
       Arr(<<Loft>>),                               \* 13
       Arr(<<Chapel, Loft>>),                       \* 14 only one element matches
       Arr(<<LoftPending, Chapel>>),                \* 15 name and status on different resources
       Arr(<<Loft, Null>>),                         \* 16 malformed element after a match
       Arr(<<Null, Loft>>),                         \* 17 malformed element before a match
       Arr(<<Chapel, Null>>) >>                     \* 18 malformed element, no match

\* a raw event with the Resources shape i; its ID is i
ShapedEvent(i) ==
    Event(Num(i), Str("Board Mtg"), Iso(0, 10, 0), Iso(0, 11, 0), Undefined,
          Undefined, Str("Pat"), Undefined, Undefined, ResourceShapes[i])

\* SpecApi: the elements of a fetched array (null is not an event object)
FilterEvents == {ShapedEvent(i) : i \in 1 .. Len(ResourceShapes)} \cup {Null}

\* SpecApi: approved events that differ in the fields the transform reads
TransformEvents ==
    { Event(id, name, start, end, setupStart, setupEnd, organizer, description,
            location, Loft) :
        id \in {Num(1), Str("ev-2")},
        name \in {Undefined, Str(""), Str("Board Mtg")},
        start \in {Undefined, Iso(0, 10, 0)},
        end \in {Undefined, Iso(0, 11, 0), Iso(0, 9, 0)},
        setupStart \in {Undefined, Null, Str(""), Iso(0, 9, 30)},
        setupEnd \in {Undefined, Null, Str(""), Iso(0, 11, 30)},
        organizer \in {Undefined, Str("Pat")},
        description \in {Undefined, Str("Quarterly")},
        location \in {Undefined, Location(Str("Annex"))} }

\* SpecApi: what one fetch can deliver
ApiOutcomes ==
    {Failed(k) : k \in OutcomeKinds \ {"ok"}}
    \cup {Fetched(Null), Fetched(Status(Str("error")))}       \* JSON that is no array
    \cup {Fetched(Arr(es)) : es \in SeqUpTo(FilterEvents, MaxEvents)}
    \cup {Fetched(Arr(<<e>>)) : e \in TransformEvents}

(***************************************************************************)
(* SpecPos: one call of one function of DailyCalendar.                     *)
(***************************************************************************)
Idle == /\ phase = "off" /\ currentDate = Null /\ currentTime = Null
        /\ reservations = Arr(<<>>) /\ inflight = <<>> /\ lastCycle = Null
        /\ clockFired = FALSE

MaxBlocks == 2

\* start and end times of events: every hour of two days, three minute values
EventTimes == {Iso(d, h, m) : d \in {0, 1}, h \in Hours, m \in {0, 30, 59}}

\* a reservation as DailyCalendar reads it
Booking(id, startTime, endTime) ==
    [t |-> "object", id |-> Num(id), startTime |-> startTime, endTime |-> endTime]

\* windows that overlap, coincide, touch and stay apart
Bookings ==
    { Booking(1, Iso(0, 10, 0), Iso(0, 11, 0)),
      Booking(2, Iso(0, 10, 30), Iso(0, 12, 0)),
      Booking(3, Iso(0, 10, 0), Iso(0, 11, 0)),
      Booking(4, Iso(0, 11, 0), Iso(0, 13, 0)),
      Booking(5, Iso(0, 20, 30), Iso(0, 21, 0)) }

RenderTimes == {[hour |-> 6, minute |-> 59], [hour |-> 12, minute |-> 15]}

InitPos ==
    /\ Idle
    /\ ret = Undefined
    /\ \/ pc = "call" /\ arg \in Hours \X Minutes
       \/ pc = "callCurrent" /\ arg \in [hour : Hours, minute : Minutes]
       \/ pc = "callEvent" /\ arg \in EventTimes \X EventTimes
       \/ /\ pc = "callRender"
          /\ arg \in {Arr(q) : q \in SeqUpTo(Bookings, MaxBlocks)} \X RenderTimes

CallGetTimePosition ==
    /\ pc = "call"
    /\ ret' = getTimePosition(arg[1], arg[2])
    /\ pc' = "return"
    /\ UNCHANGED <<arg, displayVars>>

CallGetCurrentTimePosition ==
    /\ pc = "callCurrent"
    /\ ret' = getCurrentTimePosition(arg)
    /\ pc' = "returnCurrent"
    /\ UNCHANGED <<arg, displayVars>>

CallGetEventPosition ==
    /\ pc = "callEvent"
    /\ ret' = getEventPosition(arg[1], arg[2])
    /\ pc' = "returnEvent"
    /\ UNCHANGED <<arg, displayVars>>

CallRender ==
    /\ pc = "callRender"
    /\ ret' = DailyCalendar(arg[1], arg[2])
    /\ pc' = "returnRender"
    /\ UNCHANGED <<arg, displayVars>>

NextPos ==
    \/ CallGetTimePosition
    \/ CallGetCurrentTimePosition
    \/ CallGetEventPosition
    \/ CallRender

SpecPos == InitPos /\ [][NextPos]_vars

(***************************************************************************)
(* SpecApi: one call of getLoftReservations, one statement at a time.      *)
(* ret holds the locals of the call.                                       *)
(***************************************************************************)
Locals(events, loftEvents, result) ==
    [events |-> events, loftEvents |-> loftEvents, result |-> result]

InitApi ==
    /\ Idle
    /\ pc = "fetch"
    /\ arg \in ApiOutcomes
    /\ ret = Locals(Normal(Undefined), Normal(Undefined), Normal(Undefined))

\* const events = await fetchGraceChurchEvents();
ApiFetch ==
    /\ pc = "fetch"
    /\ LET events == fetchGraceChurchEvents(arg)
       IN  /\ ret' = [ret EXCEPT !.events = events]
           /\ pc' = IF events.threw THEN "catch" ELSE "filter"
    /\ UNCHANGED <<arg, displayVars>>

\* const loftEvents = filterLoftEvents(events);
ApiFilter ==
    /\ pc = "filter"
    /\ LET loftEvents == filterLoftEvents(ret.events.value)
       IN  /\ ret' = [ret EXCEPT !.loftEvents = loftEvents]
           /\ pc' = IF loftEvents.threw THEN "catch" ELSE "map"
    /\ UNCHANGED <<arg, displayVars>>

\* const reservations = loftEvents.map(transformEventToReservation); return reservations;
ApiMap ==
    /\ pc = "map"
    /\ ret' = [ret EXCEPT !.result = Normal(mapTransform(ret.loftEvents.value))]
    /\ pc' = "return"
    /\ UNCHANGED <<arg, displayVars>>

\* catch (error) { console.error(...); return []; }
ApiCatch ==
    /\ pc = "catch"
    /\ ret' = [ret EXCEPT !.result = Normal(Arr(<<>>))]
    /\ pc' = "return"
    /\ UNCHANGED <<arg, displayVars>>

NextApi == ApiFetch \/ ApiFilter \/ ApiMap \/ ApiCatch

SpecApi == InitApi /\ [][NextApi]_vars

\* (h1, m1) is not after (h2, m2) in lexicographic order
LexLeq(a, b) == a[1] < b[1] \/ (a[1] = b[1] /\ a[2] <= b[2])
InWindow(a) == a[1] \in 7 .. 21

C2_Formula ==
    (pc = "return" /\ arg[1] # 21) =>
        /\ RatEq(ret, Rat((arg[1] - 7) * 60 + arg[2], 840))
        /\ (arg[1] < 7 => RatLt(ret, Rat(0, 1)))
        /\ (arg = <<14, 0>> => RatEq(ret, Rat(1, 2)))

C2_Witness == pc = "return" /\ arg = <<3, 15>> /\ RatEq(ret, Rat(-225, 840))

\* C3 as stated: for every hour 0..23 and minute 0..59 the position lies in
\* [0, 1].
C3_Original ==
    pc = "return" => RatLeq(Rat(0, 1), ret) /\ RatLeq(ret, Rat(1, 1))

\* C3 amended: the position lies in [0, 1] exactly when the hour is in 7..21;
\* it is negative for the hours 0..6 and greater than 1 for the hours 22, 23.
C3_InUnitIntervalIffInWindow ==
    pc = "return" =>
        /\ InWindow(arg) <=> (RatLeq(Rat(0, 1), ret) /\ RatLeq(ret, Rat(1, 1)))
        /\ arg[1] < 7 => RatLt(ret, Rat(0, 1))
        /\ arg[1] > 21 => RatLt(Rat(1, 1), ret)

C3_Witness == pc = "return" /\ arg = <<22, 0>> /\ RatLt(Rat(1, 1), ret)

(***************************************************************************)
(* Spec: the SignageDisplay component.                                     *)
(***************************************************************************)
\* new Date(): the wall clock, to the minute
Clock(h, m) == [hour |-> h, minute |-> m]
ClockTimes == {Clock(6, 59), Clock(7, 0), Clock(21, 1)}

\* an approved event with a setup window around it
SetupEvent ==
    Event(Str("ev-setup"), Str("Wedding"), Iso(0, 14, 0), Iso(0, 15, 0),
          Iso(0, 13, 30), Iso(0, 15, 30), Undefined, Str("Reception"),
          Location(Str("Annex")), Arr(<<Loft>>))

\* the elements of the arrays the provider answers with
DisplayEvents ==
    {SetupEvent, ShapedEvent(14), ShapedEvent(6), ShapedEvent(17)}

\* what one fetch of the display can deliver
DisplayOutcomes ==
    {Failed(k) : k \in OutcomeKinds \ {"ok"}}
    \cup {Fetched(Null)}
    \cup {Fetched(Arr(es)) : es \in SeqUpTo(DisplayEvents, MaxFetched)}

\* faulty variant: an empty result leaves the reservations as they were
fetchReservationsKeepsStale(prev, outcome) ==
    LET loftReservations == getLoftReservations(outcome)
    IN  IF Len(loftReservations.elems) > 0 THEN loftReservations ELSE prev

\* faulty variant: the new reservations are added to the ones held
fetchReservationsMerges(prev, outcome) ==
    LET loftReservations == getLoftReservations(outcome)
    IN  Arr(prev.elems \o loftReservations.elems)

\* fetchReservations after the await: the value given to setReservations
fetchReservations(prev, outcome) ==
    LET loftReservations == getLoftReservations(outcome)
    IN  IF Len(loftReservations.elems) > 0
        THEN loftReservations
        ELSE Arr(<<>>)

\* an exception was raised while fetching, filtering or transforming
CycleThrew(outcome) ==
    \/ outcome.kind # "ok"
    \/ filterLoftEvents(outcome.data).threw

RemoveAt(seq, i) == [j \in 1 .. Len(seq) - 1 |-> IF j < i THEN seq[j] ELSE seq[j + 1]]

Init ==
    /\ phase = "constructed"
    /\ \E now \in ClockTimes : currentDate = now /\ currentTime = now
    /\ reservations = Arr(<<>>)
    /\ inflight = <<>>
    /\ lastCycle = Null
    /\ clockFired = FALSE
    /\ pc = "display" /\ arg = Null /\ ret = Null

\* faulty variant: the data effect only arms its interval
MountWithoutFetch ==
    /\ phase = "constructed"
    /\ phase' = "mounted"
    /\ \E now \in ClockTimes : currentTime' = now
    /\ UNCHANGED <<currentDate, reservations, inflight, lastCycle, clockFired, callVars>>

\* the two effects run once after the first render
Mount ==
    /\ phase = "constructed"
    /\ phase' = "mounted"
    /\ \E now \in ClockTimes : currentTime' = now      \* initial update
    /\ inflight' = Append(inflight, "pending")         \* fetchReservations()
    /\ UNCHANGED <<currentDate, reservations, lastCycle, clockFired, callVars>>

\* faulty variant: the clock interval also refetches
ClockTickRefetches ==
    /\ phase = "mounted"
    /\ \E now \in ClockTimes : currentDate' = now /\ currentTime' = now
    /\ clockFired' = TRUE
    /\ inflight' = IF Len(inflight) < MaxInFlight THEN Append(inflight, "pending")
                   ELSE inflight
    /\ UNCHANGED <<phase, reservations, lastCycle, callVars>>

\* faulty variant: the clock interval waits for the fetches in flight
ClockTickAwaitsFetch ==
    /\ phase = "mounted"
    /\ inflight = <<>>
    /\ \E now \in ClockTimes : currentDate' = now /\ currentTime' = now
    /\ clockFired' = TRUE
    /\ UNCHANGED <<phase, reservations, inflight, lastCycle, callVars>>

\* the 5 second interval
ClockTick ==
    /\ phase = "mounted"
    /\ \E now \in ClockTimes : currentDate' = now /\ currentTime' = now
    /\ clockFired' = TRUE
    /\ UNCHANGED <<phase, reservations, inflight, lastCycle, callVars>>

\* the 5 minute interval: fetchReservations runs up to its first await
DataTick ==
    /\ phase = "mounted"
    /\ Len(inflight) < MaxInFlight
    /\ inflight' = Append(inflight, "pending")
    /\ UNCHANGED <<phase, currentDate, currentTime, reservations, lastCycle,
                   clockFired, callVars>>

\* the rest of fetchReservations once its fetch has settled with outcome
Complete(i, outcome) ==
    /\ reservations' = fetchReservations(reservations, outcome)
    /\ inflight' = RemoveAt(inflight, i)
    /\ lastCycle' = [outcome |-> outcome,
                     hadBefore |-> Len(reservations.elems) > 0]
    /\ UNCHANGED <<phase, currentDate, currentTime, clockFired, callVars>>

\* the fetch of call i settles (fetch() rejects, the status is not ok,
\* response.json() rejects, or the body is parsed) and the call runs to its end
FetchSettles ==
    \E i \in 1 .. Len(inflight) :
        \E outcome \in DisplayOutcomes : Complete(i, outcome)

\* faulty variant: the cleanup also abandons the calls in flight
UnmountCancelsFetches ==
    /\ phase = "mounted"
    /\ phase' = "unmounted"
    /\ inflight' = <<>>
    /\ UNCHANGED <<currentDate, currentTime, reservations, lastCycle,
                   clockFired, callVars>>

\* the cleanups of the two effects clear the intervals
Unmount ==
    /\ phase = "mounted"
    /\ phase' = "unmounted"
    /\ UNCHANGED <<currentDate, currentTime, reservations, inflight, lastCycle,
                   clockFired, callVars>>

Next == Mount \/ ClockTick \/ DataTick \/ FetchSettles \/ Unmount

Spec == Init /\ [][Next]_vars

\* an armed interval fires again and again; a fetch may never settle
SpecLive == Spec /\ WF_vars(ClockTick) /\ WF_vars(DataTick)

(***************************************************************************)
(* SpecRace: the display with its fetchReservations calls told apart by    *)
(* the order in which they were issued.  inflight holds the numbers of the *)
(* calls awaiting their fetch, arg counts the calls issued, lastCycle      *)
(* names the call that completed last and the phase it completed in, and   *)
(* ret is the lastCycle of the completion before it.                       *)
(***************************************************************************)
MaxIssued == 3

RaceOutcomes ==
    { Failed("networkError"),
      Fetched(Arr(<<>>)),
      Fetched(Arr(<<SetupEvent>>)),
      Fetched(Arr(<<ShapedEvent(14)>>)) }

InitRace ==
    /\ phase = "constructed"
    /\ \E now \in ClockTimes : currentDate = now /\ currentTime = now
    /\ reservations = Arr(<<>>)
    /\ inflight = <<>>
    /\ lastCycle = Null
    /\ clockFired = FALSE
    /\ pc = "race" /\ arg = 0 /\ ret = Null

MountRace ==
    /\ phase = "constructed"
    /\ phase' = "mounted"
    /\ \E now \in ClockTimes : currentTime' = now
    /\ arg' = arg + 1
    /\ inflight' = Append(inflight, arg')
    /\ UNCHANGED <<currentDate, reservations, lastCycle, clockFired, pc, ret>>

DataTickRace ==
    /\ phase = "mounted"
    /\ Len(inflight) < MaxInFlight
    /\ arg < MaxIssued
    /\ arg' = arg + 1
    /\ inflight' = Append(inflight, arg')
    /\ UNCHANGED <<phase, currentDate, currentTime, reservations, lastCycle,
                   clockFired, pc, ret>>

\* faulty variant: a response that arrives after a later call's is dropped
CompleteRaceLatestIssuedWins(i, outcome) ==
    /\ reservations' = IF lastCycle # Null /\ lastCycle.id > inflight[i]
                       THEN reservations
                       ELSE fetchReservations(reservations, outcome)
    /\ lastCycle' = [outcome |-> outcome, hadBefore |-> Len(reservations.elems) > 0,
                     id |-> inflight[i], phase |-> phase]
    /\ ret' = lastCycle
    /\ inflight' = RemoveAt(inflight, i)
    /\ UNCHANGED <<phase, currentDate, currentTime, clockFired, pc, arg>>

CompleteRace(i, outcome) ==
    /\ reservations' = fetchReservations(reservations, outcome)
    /\ lastCycle' = [outcome |-> outcome, hadBefore |-> Len(reservations.elems) > 0,
                     id |-> inflight[i], phase |-> phase]
    /\ ret' = lastCycle
    /\ inflight' = RemoveAt(inflight, i)
    /\ UNCHANGED <<phase, currentDate, currentTime, clockFired, pc, arg>>

FetchSettlesRace ==
    \E i \in 1 .. Len(inflight) :
        \E outcome \in RaceOutcomes : CompleteRace(i, outcome)

NextRace == MountRace \/ ClockTick \/ DataTickRace \/ FetchSettlesRace \/ Unmount

SpecRace == InitRace /\ [][NextRace]_vars

(***************************************************************************)
(* SpecDeploy: one run of deploy.sh under set -euo pipefail, one section   *)
(* of the script at a time.  arg is the machine the script finds, ret is   *)
(* what the run has done so far, pc is the section to run next, "done"     *)
(* after the last one, "aborted" after a command that failed.              *)
(***************************************************************************)
AutostartDir == "/home/kiosk/.config/autostart"

\* the machines the script may be run on
Machines ==
    [lightdm : BOOLEAN,                 \* command -v lightdm after the installs
     gdm3 : BOOLEAN,                    \* command -v gdm3 after the installs
     lightdmStart : {"active", "inactive", "exit1"},   \* systemctl start lightdm.service
     browser : BOOLEAN,                 \* a browser could be installed
     buildOk : BOOLEAN,                 \* npm ci && npm run build
     userExists : BOOLEAN,              \* id -u kiosk before the run
     autostartDir : BOOLEAN]            \* the autostart directory exists before the run

InitDeploy ==
    /\ Idle
    /\ pc = "packages"
    /\ arg \in Machines
    /\ ret = [DISPLAY_MANAGER |-> "",
              log |-> <<>>,
              files |-> {},
              dirs |-> IF arg.autostartDir THEN {AutostartDir} ELSE {},
              enabled |-> {},
              useradd |-> FALSE,
              failedAt |-> ""]

\* the section ran to its end
Ran(section, next, st) ==
    /\ ret' = [st EXCEPT !.log = Append(@, section)]
    /\ pc' = next
    /\ UNCHANGED <<arg, displayVars>>

\* a command of the section failed: set -e ends the run
Aborts(section) ==
    /\ ret' = [ret EXCEPT !.failedAt = section]
    /\ pc' = "aborted"
    /\ UNCHANGED <<arg, displayVars>>

\* cat > file: fails when the directory of the file does not exist
WriteIn(dir, file, section, next) ==
    IF dir \in ret.dirs
    THEN Ran(section, next, [ret EXCEPT !.files = @ \cup {file}])
    ELSE Aborts(section)

\* sections 1 to 3: packages, display managers, browser, Node.js
InstallPackages ==
    /\ pc = "packages"
    /\ IF ~arg.browser THEN Aborts("packages")
       ELSE Ran("packages", "user",
                [ret EXCEPT !.DISPLAY_MANAGER =
                    IF arg.lightdm THEN "lightdm"
                    ELSE IF arg.gdm3 THEN "gdm3" ELSE ""])

\* section 4
CreateKioskUser ==
    /\ pc = "user"
    /\ Ran("user", "build", [ret EXCEPT !.useradd = ~arg.userExists])

\* section 5
BuildApp ==
    /\ pc = "build"
    /\ IF arg.buildOk THEN Ran("build", "nginx", ret) ELSE Aborts("build")

\* sections 6 and 7
ConfigureNginx ==
    /\ pc = "nginx"
    /\ Ran("nginx", "displayHelper",
           [ret EXCEPT !.files = @ \cup {"/etc/nginx/kiosk"},
                       !.enabled = @ \cup {"nginx"}])

\* section 8
WriteDisplaySetup ==
    /\ pc = "displayHelper"
    /\ Ran("displayHelper", "displayManager",
           [ret EXCEPT !.files = @ \cup {"/usr/local/bin/kiosk-display-setup"}])

\* section 9: if lightdm ... elif gdm3 ... else ... fi
ConfigureDisplayManager ==
    /\ pc = "displayManager"
    /\ IF ret.DISPLAY_MANAGER = "lightdm"
       THEN IF arg.lightdmStart = "exit1" THEN Aborts("displayManager")
            ELSE Ran("displayManager", "power",
                     [ret EXCEPT !.files = @ \cup {"/etc/lightdm/lightdm.conf"},
                                 !.DISPLAY_MANAGER =
                                     IF arg.lightdmStart = "inactive" /\ arg.gdm3
                                     THEN "gdm3" ELSE @])
       ELSE IF ret.DISPLAY_MANAGER = "gdm3"
       THEN Ran("displayManager", "power",
                [ret EXCEPT !.files = @ \cup {"/etc/gdm3/custom.conf"}])
       ELSE Ran("displayManager", "power", ret)

\* sections 9.5 and 9.6 up to the first autostart entry
ConfigurePower ==
    /\ pc = "power"
    /\ Ran("power", "screensaverEntry",
           [ret EXCEPT !.dirs = @ \cup {"/home/kiosk/.config/xfce4", "/home/kiosk/.config/dconf"},
                       !.files = @ \cup {"/usr/local/bin/kiosk-disable-screensaver"}])

WriteDisableScreensaver ==
    /\ pc = "screensaverEntry"
    /\ WriteIn(AutostartDir, "disable-screensaver.desktop", "screensaverEntry", "cursorEntry")

WriteHideCursor ==
    /\ pc = "cursorEntry"
    /\ WriteIn(AutostartDir, "hide-cursor.desktop", "cursorEntry", "suspendEntry")

WritePreventSuspend ==
    /\ pc = "suspendEntry"
    /\ WriteIn(AutostartDir, "prevent-suspend.desktop", "suspendEntry", "autostartDir")

\* sudo -u kiosk mkdir -p /home/kiosk/.config/autostart
MakeAutostartDir ==
    /\ pc = "autostartDir"
    /\ Ran("autostartDir", "rotationEntry", [ret EXCEPT !.dirs = @ \cup {AutostartDir}])

WriteDisplayRotation ==
    /\ pc = "rotationEntry"
    /\ WriteIn(AutostartDir, "display-rotation.desktop", "rotationEntry", "kioskEntry")

WriteKioskDesktop ==
    /\ pc = "kioskEntry"
    /\ WriteIn(AutostartDir, "kiosk.desktop", "kioskEntry", "finish")

\* section 10
FinalNotes ==
    /\ pc = "finish"
    /\ Ran("finish", "done", [ret EXCEPT !.enabled = @ \cup {"systemd-timesyncd"}])

NextDeploy ==
    \/ InstallPackages
    \/ CreateKioskUser
    \/ BuildApp
    \/ ConfigureNginx
    \/ WriteDisplaySetup
    \/ ConfigureDisplayManager
    \/ ConfigurePower
    \/ WriteDisableScreensaver
    \/ WriteHideCursor
    \/ WritePreventSuspend
    \/ MakeAutostartDir
    \/ WriteDisplayRotation
    \/ WriteKioskDesktop
    \/ FinalNotes

SpecDeploy == InitDeploy /\ [][NextDeploy]_vars

(***************************************************************************)
(* The normalizer's claims, over SpecApi.                                  *)
(***************************************************************************)
\* the Resources field of an event taken as a list
ResourceList(e) ==
    IF Nullish(e) THEN <<>>
    ELSE IF e.Resources.t = "array" THEN e.Resources.elems
    ELSE IF e.Resources.t = "object" THEN <<e.Resources>>
    ELSE <<>>

\* r is a resource named "The Loft" whose status.value is "Approved"
ApprovedLoft(r) ==
    /\ r.t = "object"
    /\ "name" \in DOMAIN r /\ r.name = Str("The Loft")
    /\ "status" \in DOMAIN r /\ r.status.t = "object"
    /\ "value" \in DOMAIN r.status /\ r.status.value = Str("Approved")

\* the event has at least one such resource
Qualifies(e) ==
    \E i \in 1 .. Len(ResourceList(e)) : ApprovedLoft(ResourceList(e)[i])

\* the qualifying events of a fetched value, in their order
QualifyingEvents(events) ==
    IF events.t = "array" THEN SelectSeq(events.elems, Qualifies) ELSE <<>>

FilterDone == pc \in {"map", "catch", "return"} /\ ~ret.events.threw

\* C4 as stated: filterLoftEvents returns exactly the events that have an
\* approved "The Loft" resource in their Resources taken as a list; events
\* without Resources, or with Resources that is neither object nor array, are
\* left out; a non-array input gives the empty list.
C4_FilterKeepsExactlyQualifying ==
    FilterDone =>
        ret.loftEvents = Normal(Arr(QualifyingEvents(ret.events.value)))

\* C5 as stated: an event of malformed shape is dropped alone; every other
\* qualifying event of the same fetch is in the returned reservations.
C5_OnlyOffendingEventDropped ==
    (pc = "return" /\ arg.kind = "ok") =>
        LET q == QualifyingEvents(arg.data)
            out == ret.result.value.elems
        IN  \A i \in 1 .. Len(q) : \E j \in 1 .. Len(out) : out[j].id = q[i].ID

\* a field of the raw event that holds a non-empty string
Present(v) == v.t = "string" /\ v # Str("")

\* the returned reservations and the events they were made from
Mapped == /\ pc = "return" /\ ~ret.events.threw /\ ~ret.loftEvents.threw
          /\ Len(ret.result.value.elems) = Len(ret.loftEvents.value.elems)
LoftEvent(i) == ret.loftEvents.value.elems[i]
Reservation(i) == ret.result.value.elems[i]
Returned == 1 .. Len(ret.result.value.elems)

\* C6: an event with both SetupStart and SetupEnd (and StartTime, EndTime)
\* gives startTime = SetupStart and endTime = SetupEnd; an event with no
\* Setup value gives startTime = StartTime and endTime = EndTime.
C6_SetupWindowPreferred ==
    Mapped => \A i \in Returned :
        LET e == LoftEvent(i)
            r == Reservation(i)
        IN  /\ (Present(e.SetupStart) /\ Present(e.SetupEnd)) =>
                  (r.startTime = e.SetupStart /\ r.endTime = e.SetupEnd)
            /\ (~Present(e.SetupStart) /\ ~Present(e.SetupEnd)) =>
                  (r.startTime = e.StartTime /\ r.endTime = e.EndTime)

C6_Witness ==
    /\ Mapped /\ Len(ret.result.value.elems) = 1
    /\ Present(LoftEvent(1).SetupStart) /\ Present(LoftEvent(1).SetupEnd)
    /\ Present(LoftEvent(1).StartTime) /\ Present(LoftEvent(1).EndTime)
    /\ Reservation(1).startTime = Iso(0, 9, 30)
    /\ Reservation(1).endTime = Iso(0, 11, 30)

\* C7: title, organizer, description and id of a reservation are the event's
\* Name, Organizer, Description and ID unchanged, and room is "The Loft"
\* whatever the event holds; so every returned reservation has that room.
C7_FieldsCopiedRoomFixed ==
    /\ Mapped => \A i \in Returned :
          LET e == LoftEvent(i)
              r == Reservation(i)
          IN  /\ r.title = e.Name
              /\ r.organizer = e.Organizer
              /\ r.description = e.Description
              /\ r.id = e.ID
              /\ r.room = Str("The Loft")
    /\ pc = "return" => \A i \in Returned : Reservation(i).room = Str("The Loft")

C7_Witness ==
    /\ Mapped /\ Len(ret.result.value.elems) = 1
    /\ LoftEvent(1).Location = Location(Str("Annex"))
    /\ LoftEvent(1).Name = Str("Board Mtg")
    /\ Reservation(1).title = Str("Board Mtg")
    /\ Reservation(1).room = Str("The Loft")

\* C8: when the fetch fails (network error, HTTP status, malformed JSON),
\* fetchGraceChurchEvents returns the empty list, getLoftReservations
\* returns the empty list, and no exception is raised on the way.
C8_FetchFailureGivesEmpty ==
    arg.kind # "ok" =>
        /\ pc # "fetch" => ret.events = Normal(Arr(<<>>))
        /\ pc # "catch"
        /\ pc = "return" => ret.result = Normal(Arr(<<>>))

C8_Witness ==
    /\ arg.kind = "networkError" /\ pc = "return"
    /\ ret.result = Normal(Arr(<<>>))

\* C12 as stated: the returned reservations are the qualifying events of the
\* fetched array in the array's order, one reservation for each, none added,
\* none left out.
C12_InputOrderPreserved ==
    (pc = "return" /\ arg.kind = "ok") =>
        LET q == QualifyingEvents(arg.data)
            out == ret.result.value.elems
        IN  /\ Len(out) = Len(q)
            /\ \A i \in 1 .. Len(q) : out[i].id = q[i].ID

(***************************************************************************)
(* The display's claims, over Spec.                                        *)
(***************************************************************************)
Displayed == 1 .. Len(reservations.elems)

\* C9: when an exception was raised in the fetch, the filter or the transform
\* of a data cycle, the reservations after the cycle are empty, whatever was
\* held before it.
C9_ExceptionGivesEmptySet ==
    (lastCycle # Null /\ CycleThrew(lastCycle.outcome)) =>
        reservations = Arr(<<>>)

C9_Witness ==
    /\ lastCycle # Null
    /\ lastCycle.hadBefore
    /\ lastCycle.outcome = Fetched(Arr(<<SetupEvent, ShapedEvent(17)>>))
    /\ phase = "mounted"
    /\ reservations = Arr(<<>>)

\* C10: every reservation on display was made from a raw event of the cycle
\* that delivered it, and that event has a resource named "The Loft" whose
\* status value is "Approved".
C10_DisplayedPassedApproval ==
    \A i \in Displayed :
        /\ lastCycle # Null
        /\ lastCycle.outcome.kind = "ok"
        /\ lastCycle.outcome.data.t = "array"
        /\ \E j \in 1 .. Len(lastCycle.outcome.data.elems) :
              LET e == lastCycle.outcome.data.elems[j]
              IN  /\ Qualifies(e)
                  /\ reservations.elems[i].id = e.ID
                  /\ reservations.elems[i].title = e.Name

C10_Witness ==
    /\ lastCycle # Null
    /\ lastCycle.outcome = Fetched(Arr(<<ShapedEvent(6), SetupEvent>>))
    /\ Len(reservations.elems) = 1
    /\ reservations.elems[1].id = SetupEvent.ID

\* C11: the reservations are empty until a data cycle has completed, and
\* after a completed cycle they are exactly what getLoftReservations made of
\* that cycle's fetch, empty or not; nothing of the previous set is kept.
C11_ReplacedWholesale ==
    /\ lastCycle = Null => reservations = Arr(<<>>)
    /\ lastCycle # Null =>
          /\ reservations = getLoftReservations(lastCycle.outcome)
          /\ Len(reservations.elems) <= Len(QualifyingEvents(
                 IF lastCycle.outcome.kind = "ok" THEN lastCycle.outcome.data ELSE Null))

C11_Witness ==
    /\ lastCycle # Null
    /\ lastCycle.hadBefore
    /\ lastCycle.outcome = Fetched(Arr(<<>>))
    /\ reservations = Arr(<<>>)

(***************************************************************************)
(* Claims about what DailyCalendar draws.                                  *)
(***************************************************************************)
Rendered == phase \in {"constructed", "mounted"}
Drawn == DailyCalendar(reservations, currentTime)

C14_IndicatorScenario ==
    Rendered =>
        /\ currentTime = Clock(6, 59) => Drawn.currentTimeIndicator = <<>>
        /\ currentTime = Clock(7, 0) =>
              /\ Len(Drawn.currentTimeIndicator) = 1
              /\ RatEq(Drawn.currentTimeIndicator[1].top, Rat(0, 1))
        /\ currentTime = Clock(21, 1) => Drawn.currentTimeIndicator = <<>>

\* C15: getEventPosition gives top = position(start) and height =
\* position(end) - position(start) as shares of the timeline's height (the
\* percentages over 100); 10:00 to 11:00 gives top 3/14 and height 1/14.
C15_TopAndHeightFromPositions ==
    pc = "returnEvent" =>
        LET startPosition == getTimePosition(arg[1].hour, arg[1].minute)
            endPosition == getTimePosition(arg[2].hour, arg[2].minute)
            top == Rat(ret.top.num, ret.top.den * 100)
            height == Rat(ret.height.num, ret.height.den * 100)
        IN  /\ RatEq(top, startPosition)
            /\ RatEq(height, RatSub(endPosition, startPosition))
            /\ (arg[1] = Iso(0, 10, 0) /\ arg[2] = Iso(0, 11, 0)) =>
                  /\ RatEq(top, Rat(3, 14))
                  /\ RatEq(height, Rat(1, 14))

C15_Witness ==
    /\ pc = "returnEvent"
    /\ arg = <<Iso(0, 10, 0), Iso(0, 11, 0)>>
    /\ RatEq(ret.top, Rat(300, 14))
    /\ RatEq(ret.height, Rat(100, 14))

\* C16: the renderer draws exactly one block for each reservation, in the
\* order of the set, and a block's top and height are those of its own
\* start and end time whatever the other reservations are.
C16_OneBlockEachFromOwnTimes ==
    pc = "returnRender" =>
        LET list == arg[1].elems
        IN  /\ Len(ret.events) = Len(list)
            /\ \A i \in 1 .. Len(list) :
                  LET own == getEventPosition(list[i].startTime, list[i].endTime)
                  IN  /\ ret.events[i].key = list[i].id
                      /\ RatEq(ret.events[i].top, own.top)
                      /\ RatEq(ret.events[i].height, own.height)

C16_Witness ==
    /\ pc = "returnRender"
    /\ arg[1] = Arr(<<Booking(1, Iso(0, 10, 0), Iso(0, 11, 0)),
                      Booking(2, Iso(0, 10, 30), Iso(0, 12, 0))>>)
    /\ Len(ret.events) = 2
    /\ RatEq(ret.events[1].top, Rat(300, 14))
    /\ RatEq(ret.events[2].top, Rat(350, 14))
    /\ RatEq(ret.events[2].height, Rat(150, 14))

ClockChanges ==
    currentDate' # currentDate \/ currentTime' # currentTime \/ clockFired' # clockFired
DataChanges ==
    reservations' # reservations \/ inflight' # inflight \/ lastCycle' # lastCycle

\* C18: after the mount, a step that changes the clock state (a clock tick)
\* leaves the reservations and the fetches in flight as they are, and a step
\* that changes the reservations or the fetches in flight (a data tick or a
\* settling fetch) leaves the clock state as it is.
C18_CadencesDisjoint ==
    [][phase # "constructed" =>
          /\ ClockChanges => UNCHANGED <<reservations, inflight, lastCycle>>
          /\ DataChanges => UNCHANGED <<currentDate, currentTime, clockFired>>]_vars

C18_Witness ==
    /\ phase = "mounted"
    /\ clockFired
    /\ lastCycle # Null
    /\ Len(reservations.elems) > 0
    /\ Len(inflight) = 1

\* C19: from the constructed display the only step is the mount, which
\* issues the initial clock update and the initial fetch before any interval
\* has fired; a display that stays mounted has its clock interval fire again
\* and again, and its data interval too for as long as fewer than
\* MaxInFlight fetches are pending.
C19_CadencesStartAtMountAndKeepFiring ==
    /\ [](phase = "constructed" => (inflight = <<>> /\ ~clockFired /\ lastCycle = Null))
    /\ [][phase = "constructed" =>
             /\ phase' = "mounted"
             /\ currentTime' \in ClockTimes
             /\ inflight' = <<"pending">>
             /\ ~clockFired']_vars
    /\ ([]<>(phase # "mounted") \/ []<><<ClockTick>>_vars)
    /\ ([]<>(phase # "mounted" \/ Len(inflight) = MaxInFlight) \/ []<><<DataTick>>_vars)

C19_Witness ==
    /\ phase = "mounted"
    /\ ~clockFired
    /\ lastCycle = Null
    /\ inflight = <<"pending">>

\* C20: while a fetch is pending on the mounted display, the clock tick is
\* enabled for every clock value, and taking it shows that value.
C20_ClockEnabledWhileFetchPending ==
    (phase = "mounted" /\ Len(inflight) > 0) =>
        \A now \in ClockTimes :
            ENABLED (ClockTick /\ currentTime' = now /\ currentDate' = now
                     /\ inflight' = inflight)

C20_Witness ==
    /\ phase = "mounted"
    /\ clockFired
    /\ lastCycle = Null
    /\ Len(inflight) = MaxInFlight

(***************************************************************************)
(* Further claims about the data cadence and the normalizer's output.      *)
(***************************************************************************)
\* C21: at most one fetch is in flight at any time.
C21_AtMostOneFetchInFlight == Len(inflight) <= 1

\* C22: every reservation the normalizer returns has a title that is a
\* non-empty string.
C22_TitleNeverEmpty ==
    Mapped => \A i \in Returned : Present(Reservation(i).title)

\* the ISO local date-time a is not after b
IsoLeq(a, b) ==
    \/ a.day < b.day
    \/ a.day = b.day /\ LexLeq(<<a.hour, a.minute>>, <<b.hour, b.minute>>)
IsIso(v) == v.t = "string" /\ "s" \in DOMAIN v /\ v.s = "iso"

\* C23: every returned reservation that has a start and an end time has
\* its endTime at or after its startTime.
C23_EndNotBeforeStart ==
    Mapped => \A i \in Returned :
        LET r == Reservation(i)
        IN  (IsIso(r.startTime) /\ IsIso(r.endTime)) => IsoLeq(r.startTime, r.endTime)

\* C28: startTime is SetupStart when that is a non-empty string and
\* StartTime otherwise, endTime is SetupEnd when that is a non-empty string
\* and EndTime otherwise, each chosen without regard to the other; an event
\* with only one Setup value pairs a setup bound with a nominal bound.
C28_StartAndEndChosenIndependently ==
    Mapped => \A i \in Returned :
        LET e == LoftEvent(i)
            r == Reservation(i)
        IN  /\ r.startTime = IF Present(e.SetupStart) THEN e.SetupStart ELSE e.StartTime
            /\ r.endTime = IF Present(e.SetupEnd) THEN e.SetupEnd ELSE e.EndTime

C28_Witness ==
    /\ Mapped /\ Len(ret.result.value.elems) = 1
    /\ Present(LoftEvent(1).SetupStart) /\ ~Present(LoftEvent(1).SetupEnd)
    /\ LoftEvent(1).StartTime = Iso(0, 10, 0) /\ LoftEvent(1).EndTime = Iso(0, 11, 0)
    /\ Reservation(1).startTime = Iso(0, 9, 30)
    /\ Reservation(1).endTime = Iso(0, 11, 0)

(***************************************************************************)
(* Claims about overlapping fetches and the unmount, over SpecRace.        *)
(***************************************************************************)
\* C26: once a call has completed, the reservations are what the call that
\* completed last delivered, whether or not a call issued after it has
\* completed before it.
C26_LastCompletedWins ==
    lastCycle # Null => reservations = getLoftReservations(lastCycle.outcome)

\* call 1 completes after call 2 and replaces what call 2 delivered
C26_Witness ==
    /\ lastCycle # Null /\ ret # Null
    /\ lastCycle.id = 1 /\ ret.id = 2
    /\ ret.outcome = Fetched(Arr(<<SetupEvent>>))
    /\ lastCycle.outcome = Fetched(Arr(<<ShapedEvent(14)>>))
    /\ Len(reservations.elems) = 1
    /\ reservations.elems[1].id = ShapedEvent(14).ID

\* C29: the unmount leaves the calls in flight as they are; after it the
\* display stays unmounted, the clock state no longer changes and no call
\* is issued, and every call still in flight can run to its end.
C29_UnmountStopsTimersNotFetches ==
    /\ [][/\ (phase = "mounted" /\ phase' = "unmounted") => UNCHANGED <<inflight, arg>>
          /\ phase = "unmounted" =>
                /\ phase' = "unmounted"
                /\ UNCHANGED <<currentDate, currentTime, clockFired, arg>>
                /\ Len(inflight') <= Len(inflight)]_vars
    /\ [](phase = "unmounted" =>
             \A i \in 1 .. Len(inflight) : ENABLED CompleteRace(i, Fetched(Arr(<<>>))))

C29_Witness ==
    /\ phase = "unmounted"
    /\ lastCycle # Null
    /\ lastCycle.phase = "unmounted"
    /\ Len(reservations.elems) = 1
    /\ Len(inflight) > 0

(***************************************************************************)
(* The geometry of a block across the edges of the timeline, over SpecPos. *)
(***************************************************************************)
TimeOfDay(iso) == <<iso.hour, iso.minute>>
\* the time of day lies in 07:00..21:00
InTimeline(iso) == LexLeq(<<7, 0>>, TimeOfDay(iso)) /\ LexLeq(TimeOfDay(iso), <<21, 0>>)
BlockTop == Rat(ret.top.num, ret.top.den * 100)
BlockHeight == Rat(ret.height.num, ret.height.den * 100)
Zero == Rat(0, 1)

\* the parts of C27 that hold: the dates are ignored; inside 07:00..21:00
\* with the start not after the end the block lies within the timeline; a
\* start before 07:00 gives a negative top
C27_DatesIgnoredAndInsideTimeline ==
    pc = "returnEvent" =>
        LET start == arg[1]
            end == arg[2]
        IN  /\ ret = getEventPosition(Iso(0, start.hour, start.minute),
                                      Iso(0, end.hour, end.minute))
            /\ (/\ InTimeline(start) /\ InTimeline(end)
                /\ LexLeq(TimeOfDay(start), TimeOfDay(end))) =>
                  /\ RatLeq(Zero, BlockTop)
                  /\ RatLeq(Zero, BlockHeight)
                  /\ RatLeq(RatAdd(BlockTop, BlockHeight), Rat(1, 1))
            /\ start.hour < 7 => RatLt(BlockTop, Zero)

\* C27 as stated: the above, and an end time of day before the start time
\* of day always gives a negative height.
C27_Original ==
    /\ C27_DatesIgnoredAndInsideTimeline
    /\ pc = "returnEvent" =>
          (~LexLeq(TimeOfDay(arg[1]), TimeOfDay(arg[2])) => RatLt(BlockHeight, Zero))

\* C27 amended: an end time of day before the start time of day gives a
\* negative height unless both lie in the hour from 21:00, where every
\* minute has position 1 and the height is 0.
C27_NegativeHeightExceptInLastHour ==
    /\ C27_DatesIgnoredAndInsideTimeline
    /\ pc = "returnEvent" =>
          (~LexLeq(TimeOfDay(arg[1]), TimeOfDay(arg[2])) =>
              IF arg[1].hour = 21 /\ arg[2].hour = 21
              THEN RatEq(BlockHeight, Zero)
              ELSE RatLt(BlockHeight, Zero))

C27_Witness ==
    /\ pc = "returnEvent"
    /\ arg = <<Iso(0, 21, 30), Iso(1, 21, 0)>>
    /\ RatEq(BlockTop, Rat(1, 1))
    /\ RatEq(BlockHeight, Zero)

(***************************************************************************)
(* Claims about deploy.sh, over SpecDeploy.                                *)
(***************************************************************************)
Range(seq) == {seq[i] : i \in 1 .. Len(seq)}

\* section a is in the log before section b
Before(a, b) ==
    \E i, j \in 1 .. Len(ret.log) : i < j /\ ret.log[i] = a /\ ret.log[j] = b

AutostartEntries ==
    {"disable-screensaver.desktop", "hide-cursor.desktop", "prevent-suspend.desktop",
     "display-rotation.desktop", "kiosk.desktop"}

\* C24: a run that reaches its end has created the kiosk user, then built
\* the application, then configured Nginx, and has set up and enabled a
\* systemd kiosk service.
C24_EndHasUserBuildNginxService ==
    pc = "done" =>
        /\ Before("user", "build")
        /\ Before("build", "nginx")
        /\ "nginx" \in ret.enabled
        /\ "kiosk.service" \in ret.enabled

\* C25: once the display manager section has run on a machine where lightdm
\* was selected and did not come up and gdm3 is there, the script has
\* switched to gdm3 and has written /etc/gdm3/custom.conf.
C25_Gdm3FallbackConfigured ==
    (/\ pc \notin {"packages", "user", "build", "nginx", "displayHelper",
                   "displayManager", "aborted"}
     /\ arg.lightdm /\ arg.lightdmStart = "inactive" /\ arg.gdm3) =>
        /\ ret.DISPLAY_MANAGER = "gdm3"
        /\ "/etc/gdm3/custom.conf" \in ret.files

\* C30: an autostart entry is written only after the autostart directory
\* has been made by the script, and on a machine without that directory
\* no write of an entry ends the run.
C30_AutostartDirMadeBeforeEntries ==
    /\ \A f \in AutostartEntries \cap ret.files : "autostartDir" \in Range(ret.log)
    /\ (pc = "aborted" /\ ~arg.autostartDir) =>
          ret.failedAt \notin {"screensaverEntry", "cursorEntry", "suspendEntry",
                               "rotationEntry", "kioskEntry"}

====
